---------------------------- MODULE Spec2Model ----------------------------
(***************************************************************************)
(* Model of group_tsan_races.py: the line-by-line parser of ThreadSanitizer *)
(* logs (main), key derivation (get_key), the Location -> Race mapping and  *)
(* the report (render_races).                                               *)
(*                                                                          *)
(* A Python str is a sequence of one-character strings, so that split,      *)
(* strip, basename, int, the regular expressions and the string equality    *)
(* of the source are computed as the source computes them.  Optional[T] is  *)
(* None == <<>> or Some(x) == <<x>>.  A call that may raise returns         *)
(* [exc |-> name of the exception or "", ret |-> value].                    *)
(***************************************************************************)
EXTENDS Integers, Sequences, FiniteSets, TLC

VARIABLES
    pc,            \* position in main: "start", "reading", "parsed", "done", "failed"
    infile,        \* the input stream: "unopened", "open", "closed"
    consumed,      \* the raw lines the for loop has read from infile so far
    lines,         \* main: lines of the block being accumulated
    in_race,       \* main: inside a block
    cur_test,      \* main: Optional test name
    loc,           \* main: Optional Location derived at the last block close
    races,         \* main: the dict, as its items in insertion order
    sorted_races,  \* render_races: the sorted snapshot
    stdout,        \* what print has written
    error          \* the uncaught exception that ended the run, or ""

vars == <<pc, infile, consumed, lines, in_race, cur_test, loc, races,
          sorted_races, stdout, error>>

---------------------------------------------------------------------------
(* Python values *)

None == <<>>

Some(x) == <<x>>

NoExc == ""

Return(v) == [exc |-> NoExc, ret |-> v]

Raise(e) == [exc |-> e, ret |-> None]

SetMin(S) == CHOOSE m \in S : \A k \in S : m <= k

SetMax(S) == CHOOSE m \in S : \A k \in S : m >= k

DIGIT_CHARS == <<"0", "1", "2", "3", "4", "5", "6", "7", "8", "9">>

UPPER_CHARS ==
    <<"A", "B", "C", "D", "E", "F", "G", "H", "I", "J", "K", "L", "M",
      "N", "O", "P", "Q", "R", "S", "T", "U", "V", "W", "X", "Y", "Z">>

LOWER_CHARS ==
    <<"a", "b", "c", "d", "e", "f", "g", "h", "i", "j", "k", "l", "m",
      "n", "o", "p", "q", "r", "s", "t", "u", "v", "w", "x", "y", "z">>

Range(s) == {s[i] : i \in 1..Len(s)}

DIGITS == Range(DIGIT_CHARS)

ALNUM == Range(LOWER_CHARS) \cup Range(UPPER_CHARS) \cup DIGITS

\* the characters str.split() treats as separators when given no separator
WHITESPACE == {" ", "\t", "\n", "\r", "\f"}

\* str.startswith
startswith(s, prefix) ==
    Len(s) >= Len(prefix) /\ SubSeq(s, 1, Len(prefix)) = prefix

\* str.strip(chars): leading and trailing characters of chars removed
strip(s, chars) ==
    LET keep == {i \in 1..Len(s) : s[i] \notin chars}
    IN  IF keep = {} THEN <<>> ELSE SubSeq(s, SetMin(keep), SetMax(keep))

RECURSIVE split_from(_, _, _)
split_from(s, i, maxsplit) ==
    LET rest == {k \in i..Len(s) : s[k] \notin WHITESPACE}
    IN  IF rest = {} THEN <<>>
        ELSE LET b == SetMin(rest)
             IN  IF maxsplit = 0 THEN <<SubSeq(s, b, Len(s))>>
                 ELSE LET ws == {k \in b..Len(s) : s[k] \in WHITESPACE}
                          e  == IF ws = {} THEN Len(s) + 1 ELSE SetMin(ws)
                      IN  <<SubSeq(s, b, e - 1)>> \o split_from(s, e, maxsplit - 1)

\* str.split(maxsplit=n): runs of whitespace separate, at most n splits, the
\* remainder is kept as it is but for its leading whitespace
split(s, maxsplit) == split_from(s, 1, maxsplit)

RECURSIVE split_sep_from(_, _, _)
split_sep_from(s, i, sep) ==
    LET hits == {k \in i..Len(s) : s[k] = sep}
    IN  IF hits = {} THEN <<SubSeq(s, i, Len(s))>>
        ELSE <<SubSeq(s, i, SetMin(hits) - 1)>>
                 \o split_sep_from(s, SetMin(hits) + 1, sep)

\* str.split(sep) for a one-character sep: every occurrence separates
split_sep(s, sep) == split_sep_from(s, 1, sep)

RECURSIVE join(_, _)
\* sep.join(parts)
join(sep, parts) ==
    IF parts = <<>> THEN <<>>
    ELSE IF Len(parts) = 1 THEN parts[1]
    ELSE parts[1] \o sep \o join(sep, Tail(parts))

\* os.path.basename (posixpath): what follows the last "/"
basename(p) ==
    LET slashes == {k \in 1..Len(p) : p[k] = "/"}
    IN  IF slashes = {} THEN p ELSE SubSeq(p, SetMax(slashes) + 1, Len(p))

DigitValue(c) == (CHOOSE k \in 1..10 : DIGIT_CHARS[k] = c) - 1

RECURSIVE DecimalValue(_)
DecimalValue(ds) ==
    IF ds = <<>> THEN 0
    ELSE IF ds[Len(ds)] = "_" THEN DecimalValue(SubSeq(ds, 1, Len(ds) - 1))
    ELSE 10 * DecimalValue(SubSeq(ds, 1, Len(ds) - 1)) + DigitValue(ds[Len(ds)])

\* int(s), base 10: an optional sign, then digits with single underscores
\* between them; anything else raises ValueError
int(s) ==
    LET signed == s # <<>> /\ s[1] \in {"+", "-"}
        body   == IF signed THEN Tail(s) ELSE s
        ok     == /\ body # <<>>
                  /\ \A k \in 1..Len(body) : body[k] \in DIGITS \cup {"_"}
                  /\ body[1] # "_"
                  /\ body[Len(body)] # "_"
                  /\ \A k \in 1..(Len(body) - 1) : ~(body[k] = "_" /\ body[k + 1] = "_")
    IN  IF ~ok THEN Raise("ValueError")
        ELSE IF signed /\ s[1] = "-" THEN Return(0 - DecimalValue(body))
        ELSE Return(DecimalValue(body))

RECURSIVE NatToStr(_)
NatToStr(n) ==
    IF n < 10 THEN <<DIGIT_CHARS[n + 1]>>
    ELSE NatToStr(n \div 10) \o <<DIGIT_CHARS[(n % 10) + 1]>>

\* str(n) of an int, as an f-string formats it
str(n) == IF n < 0 THEN <<"-">> \o NatToStr(0 - n) ELSE NatToStr(n)

\* code-point order of the characters a test name is made of
CODEPOINT_ORDER == DIGIT_CHARS \o UPPER_CHARS \o <<"_">> \o LOWER_CHARS

ord(c) == CHOOSE k \in 1..Len(CODEPOINT_ORDER) : CODEPOINT_ORDER[k] = c

\* a < b for two str: the first differing character decides, else the length
StrLess(a, b) ==
    LET n    == IF Len(a) < Len(b) THEN Len(a) ELSE Len(b)
        diff == {k \in 1..n : a[k] # b[k]}
    IN  IF diff = {} THEN Len(a) < Len(b)
        ELSE ord(a[SetMin(diff)]) < ord(b[SetMin(diff)])

RECURSIVE sorted_strs(_)
\* sorted(S) of a set of str
sorted_strs(S) ==
    IF S = {} THEN <<>>
    ELSE LET m == CHOOSE x \in S : \A y \in S \ {x} : StrLess(x, y)
         IN  <<m>> \o sorted_strs(S \ {m})

---------------------------------------------------------------------------
(* Module constants of the source *)

\* "=================="
SEPARATOR ==
    <<"=", "=", "=", "=", "=", "=", "=", "=", "=",
      "=", "=", "=", "=", "=", "=", "=", "=", "=">>

\* ["_Py_atomic"]
PRIMITIVE_PREFIXES ==
    << <<"_", "P", "y", "_", "a", "t", "o", "m", "i", "c">> >>

\* PRIMITIVE_RE.match(func) is not None: re.match anchors every alternative
\* of "^" + "|".join(PRIMITIVE_PREFIXES) at the start of func
PRIMITIVE_RE_match(func) ==
    \E k \in 1..Len(PRIMITIVE_PREFIXES) : startswith(func, PRIMITIVE_PREFIXES[k])

\* The regular expression is run as a set of positions (characters matched so
\* far); each operator maps the positions before a pattern element to those
\* after it.
ReLit(s, P, lit) ==
    {p + Len(lit) : p \in {q \in P : /\ q + Len(lit) <= Len(s)
                                     /\ SubSeq(s, q + 1, q + Len(lit)) = lit}}

\* \d+
ReDigits(s, P) ==
    {e \in 1..Len(s) : /\ s[e] \in DIGITS
                        /\ \E p \in P : p < e /\ \A k \in (p + 1)..e : s[k] \in DIGITS}

\* .
ReAny(s, P) == {p + 1 : p \in {q \in P : q < Len(s) /\ s[q + 1] # "\n"}}

\* " ?"
ReOptSpace(s, P) == P \cup ReLit(s, P, <<" ">>)

\* positions after "^\d+:\d+:\d+ load avg: \d+.\d+ \[ ?\d+/\d+] "
TEST_STATUS_RE_prefix(s) ==
    LET p1  == ReDigits(s, {0})
        p2  == ReDigits(s, ReLit(s, p1, <<":">>))
        p3  == ReDigits(s, ReLit(s, p2, <<":">>))
        p4  == ReLit(s, p3, <<" ", "l", "o", "a", "d", " ", "a", "v", "g", ":", " ">>)
        p5  == ReDigits(s, ReAny(s, ReDigits(s, p4)))
        p6  == ReOptSpace(s, ReLit(s, p5, <<" ", "[">>))
        p7  == ReDigits(s, ReLit(s, ReDigits(s, p6), <<"/">>))
    IN  ReLit(s, p7, <<"]", " ">>)

\* TEST_STATUS_RE.match(s): None, or Some(group 1), the text matched by
\* (test_[a-zA-Z0-9]+), whose greedy + takes the longest run
TEST_STATUS_RE_match(s) ==
    LET starts == {g \in ReLit(s, TEST_STATUS_RE_prefix(s), <<"t", "e", "s", "t", "_">>) :
                      g < Len(s) /\ s[g + 1] \in ALNUM}
    IN  IF starts = {} THEN None
        ELSE LET g    == SetMin(starts)
                 stop == {k \in (g + 1)..Len(s) : s[k] \notin ALNUM}
                 e    == IF stop = {} THEN Len(s) ELSE SetMin(stop) - 1
             IN  Some(SubSeq(s, g - 4, e))

---------------------------------------------------------------------------
(* Location and get_key *)

\* the NamedTuple: equal iff the three fields are equal
Location(func, path, lineno) == [func |-> func, path |-> path, lineno |-> lineno]

\* Location.to_id
to_id(l) == l.func \o <<":">> \o l.path \o <<":">> \o str(l.lineno)

\* "    #"
FRAME_MARK == <<" ", " ", " ", " ", "#">>

\* key_of_frame with int() inside the try: a line number that does not parse
\* falls back to 0
key_of_frame_default0(func, loctok) ==
    LET parts  == split_sep(loctok, ":")
        path   == IF Len(parts) = 3 THEN parts[1] ELSE loctok
        lineno == IF Len(parts) = 3 THEN parts[2] ELSE <<"0">>
        n      == int(lineno)
    IN  Return(Some(Location(func, basename(path),
                             IF n.exc # NoExc THEN 0 ELSE n.ret)))

\* key_of_frame whose fallback keeps only the text before the first colon
key_of_frame_first_part(func, loctok) ==
    LET parts  == split_sep(loctok, ":")
        path   == parts[1]
        lineno == IF Len(parts) = 3 THEN parts[2] ELSE <<"0">>
        n      == int(lineno)
    IN  IF n.exc # NoExc THEN Raise(n.exc)
        ELSE Return(Some(Location(func, basename(path), n.ret)))

\* key_of_frame without line 41: the path keeps its directories
key_of_frame_no_basename(func, loctok) ==
    LET parts  == split_sep(loctok, ":")
        path   == IF Len(parts) = 3 THEN parts[1] ELSE loctok
        lineno == IF Len(parts) = 3 THEN parts[2] ELSE <<"0">>
        n      == int(lineno)
    IN  IF n.exc # NoExc THEN Raise(n.exc)
        ELSE Return(Some(Location(func, path, n.ret)))

\* lines 36-42, for the frame that is not primitive
key_of_frame(func, loctok) ==
    LET parts  == split_sep(loctok, ":")
        path   == IF Len(parts) = 3 THEN parts[1] ELSE loctok
        lineno == IF Len(parts) = 3 THEN parts[2] ELSE <<"0">>
        n      == int(lineno)
    IN  IF n.exc # NoExc THEN Raise(n.exc)
        ELSE Return(Some(Location(func, basename(path), n.ret)))

RECURSIVE get_key_from(_, _)
get_key_from(ls, i) ==
    IF i > Len(ls) THEN Return(None)
    ELSE IF startswith(ls[i], FRAME_MARK)
         THEN LET parts == split(ls[i], 3)
              IN  IF Len(parts) # 4 THEN Raise("ValueError")
                  ELSE IF ~PRIMITIVE_RE_match(parts[2])
                       THEN key_of_frame(parts[2], parts[3])
                       ELSE get_key_from(ls, i + 1)
         ELSE get_key_from(ls, i + 1)

RECURSIVE get_key_noskip_from(_, _)
get_key_noskip_from(ls, i) ==
    IF i > Len(ls) THEN Return(None)
    ELSE IF startswith(ls[i], FRAME_MARK)
         THEN LET parts == split(ls[i], 3)
              IN  IF Len(parts) # 4 THEN Raise("ValueError")
                  ELSE key_of_frame(parts[2], parts[3])
         ELSE get_key_noskip_from(ls, i + 1)

\* get_key without the primitive-prefix test: the first frame decides
get_key_noskip(ls) == get_key_noskip_from(ls, 1)

RECURSIVE get_key_skip_malformed_from(_, _)
get_key_skip_malformed_from(ls, i) ==
    IF i > Len(ls) THEN Return(None)
    ELSE IF startswith(ls[i], FRAME_MARK) /\ Len(split(ls[i], 3)) = 4
         THEN LET parts == split(ls[i], 3)
              IN  IF ~PRIMITIVE_RE_match(parts[2])
                  THEN key_of_frame(parts[2], parts[3])
                  ELSE get_key_skip_malformed_from(ls, i + 1)
         ELSE get_key_skip_malformed_from(ls, i + 1)

\* get_key that passes over a frame line of fewer than four tokens
get_key_skip_malformed(ls) == get_key_skip_malformed_from(ls, 1)

\* get_key(lines): Optional[Location], or ValueError
get_key(ls) == get_key_from(ls, 1)

---------------------------------------------------------------------------
(* Race and the races dict *)

\* Race.__init__
Race(l) == [loc |-> l, tests |-> {}, examples |-> <<>>]

\* the position of key l in the dict, 0 when races.get(l, None) is None
dict_index(d, l) ==
    IF \E i \in 1..Len(d) : d[i].loc = l
    THEN CHOOSE i \in 1..Len(d) : d[i].loc = l
    ELSE 0

\* ingest that looks the key up only when it is not None: a None key gets a
\* fresh Race each time, stored over the one before
ingest_none_fresh(d, l, example, test) ==
    LET d1 == IF dict_index(d, l) = 0 THEN Append(d, Race(l))
              ELSE IF l = None THEN [d EXCEPT ![dict_index(d, l)] = Race(l)]
              ELSE d
        i  == dict_index(d1, l)
    IN  [d1 EXCEPT ![i].examples = Append(@, example),
                   ![i].tests = IF test # None THEN @ \cup {test[1]} ELSE @]

\* ingest that keeps an example text only once
ingest_dedup(d, l, example, test) ==
    LET d1 == IF dict_index(d, l) = 0 THEN Append(d, Race(l)) ELSE d
        i  == dict_index(d1, l)
    IN  [d1 EXCEPT ![i].examples = IF \E n \in 1..Len(@) : @[n] = example
                                   THEN @ ELSE Append(@, example),
                   ![i].tests = IF test # None THEN @ \cup {test[1]} ELSE @]

\* ingest that puts the example at the front of the list
ingest_prepend(d, l, example, test) ==
    LET d1 == IF dict_index(d, l) = 0 THEN Append(d, Race(l)) ELSE d
        i  == dict_index(d1, l)
    IN  [d1 EXCEPT ![i].examples = <<example>> \o @,
                   ![i].tests = IF test # None THEN @ \cup {test[1]} ELSE @]

\* lines 106-112: look the key up, create the Race when it is missing, append
\* the example, add the test when there is one
ingest(d, l, example, test) ==
    LET d1 == IF dict_index(d, l) = 0 THEN Append(d, Race(l)) ELSE d
        i  == dict_index(d1, l)
    IN  [d1 EXCEPT ![i].examples = Append(@, example),
                   ![i].tests = IF test # None THEN @ \cup {test[1]} ELSE @]

---------------------------------------------------------------------------
(* main: the body of the for loop *)

\* the locals of main as one record
Locals(ls, ir, ct, l, d) ==
    [lines |-> ls, in_race |-> ir, cur_test |-> ct, loc |-> l, races |-> d,
     exc |-> NoExc]

\* lines 98-100 and 92
InitialLocals == Locals(<<>>, FALSE, None, None, <<>>)

\* close_block without line 114: the closed block's lines stay in the buffer
close_block_no_clear(st) ==
    LET k == get_key(st.lines)
    IN  IF k.exc # NoExc THEN [st EXCEPT !.exc = k.exc]
        ELSE [st EXCEPT !.loc = k.ret,
                        !.races = ingest(st.races, k.ret, join(<<"\n">>, st.lines),
                                         st.cur_test),
                        !.in_race = FALSE]

\* close_block without line 113: the parser stays inside the block
close_block_keep_open(st) ==
    LET k == get_key(st.lines)
    IN  IF k.exc # NoExc THEN [st EXCEPT !.exc = k.exc]
        ELSE [st EXCEPT !.loc = k.ret,
                        !.races = ingest(st.races, k.ret, join(<<"\n">>, st.lines),
                                         st.cur_test),
                        !.lines = <<>>]

\* lines 104-114: the closing separator
close_block(st) ==
    LET k == get_key(st.lines)
    IN  IF k.exc # NoExc THEN [st EXCEPT !.exc = k.exc]
        ELSE [st EXCEPT !.loc = k.ret,
                        !.races = ingest(st.races, k.ret, join(<<"\n">>, st.lines),
                                         st.cur_test),
                        !.in_race = FALSE,
                        !.lines = <<>>]

\* scan_line that sets cur_test only while it is None
scan_line_keep_first(st, line) ==
    LET matches == TEST_STATUS_RE_match(line)
    IN  IF matches # None
        THEN IF st.cur_test = None THEN [st EXCEPT !.cur_test = matches] ELSE st
        ELSE IF line = SEPARATOR THEN [st EXCEPT !.in_race = TRUE]
        ELSE st

\* lines 118-122: a line outside a block
scan_line(st, line) ==
    LET matches == TEST_STATUS_RE_match(line)
    IN  IF matches # None THEN [st EXCEPT !.cur_test = matches]
        ELSE IF line = SEPARATOR THEN [st EXCEPT !.in_race = TRUE]
        ELSE st

\* loop_body that tries the status pattern before it looks at in_race
loop_body_status_first(st, raw) ==
    LET line == strip(raw, {"\n"})
        matches == TEST_STATUS_RE_match(line)
    IN  IF matches # None THEN [st EXCEPT !.cur_test = matches]
        ELSE IF st.in_race
        THEN IF line = SEPARATOR THEN close_block(st)
             ELSE [st EXCEPT !.lines = Append(@, line)]
        ELSE scan_line(st, line)

\* lines 102-122: one iteration, for the raw line the iterator yields
loop_body(st, raw) ==
    LET line == strip(raw, {"\n"})
    IN  IF st.in_race
        THEN IF line = SEPARATOR THEN close_block(st)
             ELSE [st EXCEPT !.lines = Append(@, line)]
        ELSE scan_line(st, line)

RECURSIVE parse_from(_, _, _)
parse_from(st, input, i) ==
    IF i > Len(input) \/ st.exc # NoExc THEN st
    ELSE parse_from(loop_body(st, input[i]), input, i + 1)

\* lines 98-122 over a whole input: the locals when the loop ends or raises
parse(input) == parse_from(InitialLocals, input, 1)

---------------------------------------------------------------------------
(* render_races *)

\* one print call: what it writes, as a tag and the values formatted into it
Printed(tag, data) == [tag |-> tag, data |-> data]

\* lines 54-75
ReportHead ==
    <<Printed("<!DOCTYPE html>", <<>>), Printed("<html>", <<>>),
      Printed("<head>", <<>>), Printed("assets", <<>>), Printed("</head>", <<>>),
      Printed("<body>", <<>>), Printed("<div container>", <<>>),
      Printed("column titles", <<>>)>>

\* lines 86-88
ReportTail ==
    <<Printed("</div>", <<>>), Printed("</body>", <<>>), Printed("</html>", <<>>)>>

RECURSIVE insert_desc(_, _)
\* r placed after every record with at least as many examples
insert_desc(sorted, r) ==
    IF sorted = <<>> THEN <<r>>
    ELSE IF Len(Head(sorted).examples) >= Len(r.examples)
         THEN <<Head(sorted)>> \o insert_desc(Tail(sorted), r)
         ELSE <<r>> \o sorted

RECURSIVE sort_from(_, _, _)
sort_from(d, i, acc) ==
    IF i > Len(d) THEN acc
    ELSE sort_from(d, i + 1, insert_desc(acc, d[i]))

RECURSIVE insert_asc(_, _)
insert_asc(sorted, r) ==
    IF sorted = <<>> THEN <<r>>
    ELSE IF Len(Head(sorted).examples) <= Len(r.examples)
         THEN <<Head(sorted)>> \o insert_asc(Tail(sorted), r)
         ELSE <<r>> \o sorted

RECURSIVE sort_asc_from(_, _, _)
sort_asc_from(d, i, acc) ==
    IF i > Len(d) THEN acc
    ELSE sort_asc_from(d, i + 1, insert_asc(acc, d[i]))

\* sorted_by_count without reverse=True
sorted_by_count_asc(d) == sort_asc_from(d, 1, <<>>)

\* line 76: sorted(races.items(), reverse=True, key=len of examples); the sort
\* is stable, and reverse=True keeps equal items in their original order
sorted_by_count(d) == sort_from(d, 1, <<>>)

RECURSIVE print_examples(_, _)
\* lines 82-83
print_examples(examples, i) ==
    IF i > Len(examples) THEN <<>>
    ELSE <<Printed("example", <<examples[i]>>)>> \o print_examples(examples, i + 1)

\* lines 78-84 for one item, whose key is a Location
print_race(race) ==
    LET l           == race.loc[1]
        examples_id == to_id(l) \o <<"_", "e", "x", "a", "m", "p", "l", "e", "s">>
        tests       == join(<<",", " ">>, sorted_strs(race.tests))
    IN  <<Printed("row", <<l.func, l.path, str(l.lineno),
                           str(Len(race.examples)), tests, examples_id>>),
          Printed("collapse", <<examples_id>>)>>
        \o print_examples(race.examples, 1)
        \o <<Printed("</div></div>", <<>>)>>

RECURSIVE print_races(_, _, _)
\* lines 77-84: loc.to_id() of a None key raises AttributeError, with what was
\* printed before it already written
print_races(sorted, i, out) ==
    IF i > Len(sorted) THEN [exc |-> NoExc, ret |-> out]
    ELSE IF sorted[i].loc = None THEN [exc |-> "AttributeError", ret |-> out]
    ELSE print_races(sorted, i + 1, out \o print_race(sorted[i]))

\* render_races(races): what is printed, and the exception if one is raised
render_races(d) ==
    LET body == print_races(sorted_by_count(d), 1, ReportHead)
    IN  IF body.exc # NoExc THEN body
        ELSE [exc |-> NoExc, ret |-> body.ret \o ReportTail]

---------------------------------------------------------------------------
(* main as a state machine *)

\* the state before main(path) runs
Init ==
    /\ pc = "start"
    /\ infile = "unopened"
    /\ consumed = <<>>
    /\ lines = InitialLocals.lines
    /\ in_race = InitialLocals.in_race
    /\ cur_test = InitialLocals.cur_test
    /\ loc = InitialLocals.loc
    /\ races = InitialLocals.races
    /\ sorted_races = <<>>
    /\ stdout = <<>>
    /\ error = NoExc

\* lines 93-96: the stream is acquired
Open ==
    /\ pc = "start"
    /\ infile' = "open"
    /\ pc' = "reading"
    /\ UNCHANGED <<consumed, lines, in_race, cur_test, loc, races, sorted_races,
                   stdout, error>>

\* line 96: open(path) raises, before the try statement is entered
OpenFails ==
    /\ pc = "start"
    /\ pc' = "failed"
    /\ error' = "OSError"
    /\ UNCHANGED <<infile, consumed, lines, in_race, cur_test, loc, races,
                   sorted_races, stdout>>

\* the locals of main in the current state
CurrentLocals == Locals(lines, in_race, cur_test, loc, races)

\* ReadLine without the try/finally: an exception leaves the stream open
ReadLine_no_finally(raw) ==
    /\ pc = "reading"
    /\ LET st == loop_body(Locals(lines, in_race, cur_test, loc, races), raw)
       IN  /\ consumed' = Append(consumed, raw)
           /\ lines' = st.lines
           /\ in_race' = st.in_race
           /\ cur_test' = st.cur_test
           /\ loc' = st.loc
           /\ races' = st.races
           /\ IF st.exc # NoExc
              THEN pc' = "failed" /\ error' = st.exc /\ UNCHANGED infile
              ELSE UNCHANGED <<pc, infile, error>>
    /\ UNCHANGED <<sorted_races, stdout>>

\* lines 101-122, and 123-124 when the body raises: the iterator yields raw
ReadLine(raw) ==
    /\ pc = "reading"
    /\ LET st == loop_body(CurrentLocals, raw)
       IN  /\ consumed' = Append(consumed, raw)
           /\ lines' = st.lines
           /\ in_race' = st.in_race
           /\ cur_test' = st.cur_test
           /\ loc' = st.loc
           /\ races' = st.races
           /\ IF st.exc # NoExc
              THEN pc' = "failed" /\ infile' = "closed" /\ error' = st.exc
              ELSE UNCHANGED <<pc, infile, error>>
    /\ UNCHANGED <<sorted_races, stdout>>

\* EndOfInput that ingests the lines of a block left open
EndOfInput_flush ==
    /\ pc = "reading"
    /\ infile' = "closed"
    /\ pc' = "parsed"
    /\ races' = IF in_race
                THEN ingest(races, get_key(lines).ret, join(<<"\n">>, lines), cur_test)
                ELSE races
    /\ UNCHANGED <<consumed, lines, in_race, cur_test, loc, sorted_races,
                   stdout, error>>

\* the iterator is exhausted: the loop ends and line 124 closes the stream
EndOfInput ==
    /\ pc = "reading"
    /\ infile' = "closed"
    /\ pc' = "parsed"
    /\ UNCHANGED <<consumed, lines, in_race, cur_test, loc, races, sorted_races,
                   stdout, error>>

\* line 125: render_races(races)
Render ==
    /\ pc = "parsed"
    /\ LET r == render_races(races)
       IN  /\ sorted_races' = sorted_by_count(races)
           /\ stdout' = r.ret
           /\ error' = r.exc
           /\ pc' = IF r.exc # NoExc THEN "failed" ELSE "done"
    /\ UNCHANGED <<infile, consumed, lines, in_race, cur_test, loc, races>>

---------------------------------------------------------------------------
(* Inputs: raw lines as the file iterator yields them *)

NL == <<"\n">>

\* "==================\n"
SEP_LINE == SEPARATOR \o NL

\* "0:0:1 load avg: 1.5 [1/2] test_a\n"
STATUS_A ==
    <<"0", ":", "0", ":", "1", " ", "l", "o", "a", "d", " ", "a", "v", "g", ":",
      " ", "1", ".", "5", " ", "[", "1", "/", "2", "]", " ", "t", "e", "s", "t",
      "_", "a", "\n">>

\* "0:0:2 load avg: 0.93 [ 2/2] test_b\n"
STATUS_B ==
    <<"0", ":", "0", ":", "2", " ", "l", "o", "a", "d", " ", "a", "v", "g", ":",
      " ", "0", ".", "9", "3", " ", "[", " ", "2", "/", "2", "]", " ", "t", "e",
      "s", "t", "_", "b", "\n">>

\* "    #0 f a/x.c:10:5 (m)\n"
FRAME_F ==
    <<" ", " ", " ", " ", "#", "0", " ", "f", " ", "a", "/", "x", ".", "c", ":",
      "1", "0", ":", "5", " ", "(", "m", ")", "\n">>

\* "    #1 g y.c:7:1 (m)\n"
FRAME_G ==
    <<" ", " ", " ", " ", "#", "1", " ", "g", " ", "y", ".", "c", ":", "7", ":",
      "1", " ", "(", "m", ")", "\n">>

\* "    #0 _Py_atomic_store mem.c:3:1 (m)\n"
FRAME_PRIM ==
    <<" ", " ", " ", " ", "#", "0", " ", "_", "P", "y", "_", "a", "t", "o", "m",
      "i", "c", "_", "s", "t", "o", "r", "e", " ", "m", "e", "m", ".", "c", ":",
      "3", ":", "1", " ", "(", "m", ")", "\n">>

\* "    #2 f x.c:10:5\n": three tokens
FRAME_SHORT ==
    <<" ", " ", " ", " ", "#", "2", " ", "f", " ", "x", ".", "c", ":", "1", "0",
      ":", "5", "\n">>

\* "    #0 f x.c:zz:5 (m)\n": a line number that is no number
FRAME_BADNO ==
    <<" ", " ", " ", " ", "#", "0", " ", "f", " ", "x", ".", "c", ":", "z", "z",
      ":", "5", " ", "(", "m", ")", "\n">>

\* "data race\n"
TEXT_LINE == <<"d", "a", "t", "a", " ", "r", "a", "c", "e", "\n">>

\* "    #3 f b/x.c:010:9 (n)\n": the Location of FRAME_F, with another
\* directory, column and module and another spelling of the line number
FRAME_F2 ==
    <<" ", " ", " ", " ", "#", "3", " ", "f", " ", "b", "/", "x", ".", "c",
      ":", "0", "1", "0", ":", "9", " ", "(", "n", ")", "\n">>

\* "    #0 f a/x.c:11:5 (m)\n": FRAME_F with another line number
FRAME_FL ==
    <<" ", " ", " ", " ", "#", "0", " ", "f", " ", "a", "/", "x", ".", "c",
      ":", "1", "1", ":", "5", " ", "(", "m", ")", "\n">>

\* "    #0 f a/y.c:10:5 (m)\n": FRAME_F with another file
FRAME_FY ==
    <<" ", " ", " ", " ", "#", "0", " ", "f", " ", "a", "/", "y", ".", "c",
      ":", "1", "0", ":", "5", " ", "(", "m", ")", "\n">>

\* "    #0 f a/x.c:10 (m)\n": a location token of two parts
FRAME_NOCOL ==
    <<" ", " ", " ", " ", "#", "0", " ", "f", " ", "a", "/", "x", ".", "c",
      ":", "1", "0", " ", "(", "m", ")", "\n">>

\* "    #0 f a/x.c:10:5:2 (m)\n": a location token of four parts
FRAME_FOUR ==
    <<" ", " ", " ", " ", "#", "0", " ", "f", " ", "a", "/", "x", ".", "c",
      ":", "1", "0", ":", "5", ":", "2", " ", "(", "m", ")", "\n">>

\* "    #0 f:x.c 10 (m)\n": a function name with a colon and a location
\* token of one part
FRAME_COLONF ==
    <<" ", " ", " ", " ", "#", "0", " ", "f", ":", "x", ".", "c", " ", "1",
      "0", " ", "(", "m", ")", "\n">>

\* status lines and blocks of one Location or none
AggLines == {SEP_LINE, STATUS_A, STATUS_B, FRAME_F}

\* blocks of every kind of stack-frame line
KeyLines ==
    {SEP_LINE, FRAME_PRIM, FRAME_F, FRAME_G, FRAME_SHORT, FRAME_BADNO, TEXT_LINE}

\* blocks of two Locations or none
SortLines == {SEP_LINE, FRAME_F, FRAME_G}

\* blocks whose frames give one Location in two spellings, or Locations that
\* differ from it in one field
LocLines == {SEP_LINE, FRAME_F, FRAME_F2, FRAME_FL, FRAME_FY}

\* blocks whose frames have location tokens of one, two, three and four parts
IdLines == {SEP_LINE, FRAME_F, FRAME_NOCOL, FRAME_FOUR, FRAME_COLONF}

MaxAggLen == 7

MaxKeyLen == 5

MaxSortLen == 9

MaxLocLen == 7

MaxIdLen == 6

NextAgg ==
    \/ Open
    \/ OpenFails
    \/ \E raw \in AggLines : Len(consumed) < MaxAggLen /\ ReadLine(raw)
    \/ EndOfInput
    \/ Render

NextKey ==
    \/ Open
    \/ OpenFails
    \/ \E raw \in KeyLines : Len(consumed) < MaxKeyLen /\ ReadLine(raw)
    \/ EndOfInput
    \/ Render

NextSort ==
    \/ Open
    \/ OpenFails
    \/ \E raw \in SortLines : Len(consumed) < MaxSortLen /\ ReadLine(raw)
    \/ EndOfInput
    \/ Render

NextLoc ==
    \/ Open
    \/ OpenFails
    \/ \E raw \in LocLines : Len(consumed) < MaxLocLen /\ ReadLine(raw)
    \/ EndOfInput
    \/ Render

NextId ==
    \/ Open
    \/ OpenFails
    \/ \E raw \in IdLines : Len(consumed) < MaxIdLen /\ ReadLine(raw)
    \/ EndOfInput
    \/ Render

\* logs of test-status lines and blocks
Spec == Init /\ [][NextAgg]_vars

\* logs of stack-frame lines of every kind
SpecKey == Init /\ [][NextKey]_vars

\* logs whose blocks give records of different sizes
SpecSort == Init /\ [][NextSort]_vars

\* logs whose blocks spell one Location in two ways, or differ in one field
SpecLoc == Init /\ [][NextLoc]_vars

\* logs whose frames have location tokens of any number of parts
SpecId == Init /\ [][NextId]_vars

---------------------------------------------------------------------------
(* What an input says, read off the consumed lines independently of main *)

\* a raw line without its final newline
TextOf(raw) == SubSeq(raw, 1, Len(raw) - 1)

SepPositions(input) == {i \in 1..Len(input) : input[i] = SEP_LINE}

\* the number of separator lines before position i
SepsBefore(input, i) == Cardinality({j \in SepPositions(input) : j < i})

NthSep(input, n) ==
    CHOOSE i \in SepPositions(input) : SepsBefore(input, i) = n - 1

\* the closed blocks are numbered 1..NumClosed in input order
NumClosed(input) == Cardinality(SepPositions(input)) \div 2

OpenAt(input, k) == NthSep(input, 2 * k - 1)

CloseAt(input, k) == NthSep(input, 2 * k)

RECURSIVE Texts(_)
Texts(raws) ==
    IF raws = <<>> THEN <<>> ELSE <<TextOf(Head(raws))>> \o Texts(Tail(raws))

\* the lines strictly between the separators of closed block k
BlockLines(input, k) ==
    Texts(SubSeq(input, OpenAt(input, k) + 1, CloseAt(input, k) - 1))

\* what key derivation gives for closed block k
BlockKey(input, k) == get_key(BlockLines(input, k))

\* the test-status lines that are not inside a block
StatusOutside(input) ==
    {i \in 1..Len(input) : /\ input[i] # SEP_LINE
                           /\ SepsBefore(input, i) % 2 = 0
                           /\ TEST_STATUS_RE_match(TextOf(input[i])) # None}

\* the name on the latest of the status lines S before position p
LatestTest(input, S, p) ==
    LET before == {i \in S : i < p}
    IN  IF before = {} THEN None
        ELSE TEST_STATUS_RE_match(TextOf(input[SetMax(before)]))

\* the name of the most recent test-status line outside a block before position p
TestBefore(input, p) == LatestTest(input, StatusOutside(input), p)

Keys(d) == {d[i].loc : i \in 1..Len(d)}

RecordsOf(d, l) == {i \in 1..Len(d) : d[i].loc = l}

RecordOf(d, l) == d[CHOOSE i \in 1..Len(d) : d[i].loc = l]

RECURSIVE TotalExamples(_)
TotalExamples(d) ==
    IF d = <<>> THEN 0 ELSE Len(Head(d).examples) + TotalExamples(Tail(d))

\* the loop has read the whole input without raising
Parsed == pc = "parsed" \/ pc = "done" \/ (pc = "failed" /\ error = "AttributeError")

\* render_races has computed its snapshot
Rendered == pc = "done" \/ (pc = "failed" /\ error = "AttributeError")

\* the line read last closed a block
JustClosed ==
    /\ pc = "reading"
    /\ ~in_race
    /\ consumed # <<>>
    /\ consumed[Len(consumed)] = SEP_LINE

---------------------------------------------------------------------------
(* Claims *)

\* the closed blocks of the input that derive l
BlocksOf(input, l) == {k \in 1..NumClosed(input) : BlockKey(input, k) = Return(l)}

\* C1: when the whole input is parsed, every Location L derived by exactly N
\* closed blocks has exactly one record, with exactly N examples (identical
\* blocks counted each time) and at most N tests.
C1_ExamplesCountBlocks ==
    Parsed =>
        \A k \in 1..NumClosed(consumed) :
            BlockKey(consumed, k).exc = NoExc =>
                LET l == BlockKey(consumed, k).ret
                    N == Cardinality(BlocksOf(consumed, l))
                IN  /\ Cardinality(RecordsOf(races, l)) = 1
                    /\ Len(RecordOf(races, l).examples) = N
                    /\ Cardinality(RecordOf(races, l).tests) <= N

\* two identical blocks of one Location under one test name were parsed
C1_Witness ==
    /\ Parsed
    /\ \E i \in 1..Len(races) :
          /\ races[i].loc # None
          /\ Len(races[i].examples) = 2
          /\ races[i].examples[1] = races[i].examples[2]
          /\ Cardinality(races[i].tests) = 1

\* the stack-frame lines of a block whose function name has no primitive prefix
Qualifying(b) ==
    {i \in 1..Len(b) : /\ startswith(b[i], FRAME_MARK)
                       /\ Len(split(b[i], 3)) >= 2
                       /\ ~PRIMITIVE_RE_match(split(b[i], 3)[2])}

\* the Location written on one stack-frame line
FrameLocation(line) == key_of_frame(split(line, 3)[2], split(line, 3)[3]).ret

\* C2: the key derived when a block closes is the Location of the first
\* stack-frame line whose function has no primitive prefix, the lines after
\* that frame do not influence it, and it is absent when the block has no
\* such line.
C2_FirstQualifyingFrame ==
    JustClosed =>
        LET b == BlockLines(consumed, NumClosed(consumed))
            q == Qualifying(b)
        IN  IF q = {} THEN loc = None
            ELSE /\ loc = FrameLocation(b[SetMin(q)])
                 /\ loc = get_key(SubSeq(b, 1, SetMin(q))).ret

\* a block closed in which a primitive frame comes first and another
\* qualifying frame, of another Location, follows the deciding one
C2_Witness ==
    /\ JustClosed
    /\ LET b == BlockLines(consumed, NumClosed(consumed))
           q == Qualifying(b)
       IN  /\ Cardinality(q) >= 2
           /\ SetMin(q) > 1
           /\ PRIMITIVE_RE_match(split(b[1], 3)[2])
           /\ FrameLocation(b[SetMax(q)]) # loc

\* C3: when the input ends inside a block, the mapping is the one parsing
\* gives for the input cut just before the block's opening separator.
C3_UnclosedBlockDiscarded ==
    (Parsed /\ in_race) =>
        races = parse(SubSeq(consumed, 1, SetMax(SepPositions(consumed)) - 1)).races

\* the input ended inside a block that holds a stack frame, after a closed block
C3_Witness ==
    /\ pc = "parsed"
    /\ in_race
    /\ get_key(lines).ret # None
    /\ races # <<>>

\* C4: the snapshot holds every record of the mapping exactly once, and a
\* record with strictly more examples comes before one with fewer.
C4_SnapshotSortedDescending ==
    Rendered =>
        /\ Len(sorted_races) = Len(races)
        /\ \A i \in 1..Len(races) :
              Cardinality({j \in 1..Len(sorted_races) : sorted_races[j] = races[i]}) = 1
        /\ \A a, b \in 1..Len(sorted_races) :
              Len(sorted_races[a].examples) > Len(sorted_races[b].examples) => a < b

\* the report was written for a mapping whose insertion order is not the
\* order of the snapshot
C4_Witness ==
    /\ pc = "done"
    /\ Len(races) >= 2
    /\ sorted_races # races

\* C5: cur_test is the name of the most recent test-status line read outside
\* a block (None when there is none), and the tests of a record are exactly
\* the names in force at the closing separators of its blocks.
C5_TestsAreCurrentTestAtClose ==
    LET S       == StatusOutside(consumed)
        name(k) == LatestTest(consumed, S, CloseAt(consumed, k))
    IN  /\ cur_test = LatestTest(consumed, S, Len(consumed) + 1)
        /\ \A i \in 1..Len(races) :
              races[i].tests =
                  {name(k)[1] : k \in {n \in BlocksOf(consumed, races[i].loc) :
                                          name(n) # None}}

\* two blocks of one Location closed under two different test names
C5_Witness ==
    \E i \in 1..Len(races) :
        /\ Len(races[i].examples) = 2
        /\ Cardinality(races[i].tests) = 2

\* the input with its closed blocks j and k (j < k) exchanged, separators
\* included, and every other line left in place
SwapBlocks(input, j, k) ==
    SubSeq(input, 1, OpenAt(input, j) - 1)
    \o SubSeq(input, OpenAt(input, k), CloseAt(input, k))
    \o SubSeq(input, CloseAt(input, j) + 1, OpenAt(input, k) - 1)
    \o SubSeq(input, OpenAt(input, j), CloseAt(input, j))
    \o SubSeq(input, CloseAt(input, k) + 1, Len(input))

Count(seq, e) == Cardinality({i \in 1..Len(seq) : seq[i] = e})

\* the same elements, each as many times
SameBag(a, b) ==
    /\ Len(a) = Len(b)
    /\ \A i \in 1..Len(a) : Count(a, a[i]) = Count(b, a[i])

SameLocationsAndExamples(d, e) ==
    /\ Keys(d) = Keys(e)
    /\ \A l \in Keys(d) : SameBag(RecordOf(d, l).examples, RecordOf(e, l).examples)

SameTests(d, e) ==
    \A l \in Keys(d) \cap Keys(e) : RecordOf(d, l).tests = RecordOf(e, l).tests

\* C6 as stated: exchanging two closed blocks of a parsed input gives the same
\* Locations, the same tests for every record and the same examples for
\* every record up to their order.
C6_SwapGivesSameMapping ==
    pc = "parsed" =>
        \A j, k \in 1..NumClosed(consumed) :
            j < k =>
                LET other == parse(SwapBlocks(consumed, j, k)).races
                IN  SameLocationsAndExamples(races, other) /\ SameTests(races, other)

\* C6 amended: exchanging two closed blocks gives the same Locations and the
\* same examples for every record up to their order; the tests of every
\* record are the same too when the two blocks close under the same current
\* test or derive the same Location.
C6_SwapKeepsLocationsAndExamples ==
    pc = "parsed" =>
        LET S       == StatusOutside(consumed)
            name(n) == LatestTest(consumed, S, CloseAt(consumed, n))
        IN  \A j, k \in 1..NumClosed(consumed) :
                j < k =>
                    LET other == parse(SwapBlocks(consumed, j, k))
                    IN  /\ other.exc = NoExc
                        /\ SameLocationsAndExamples(races, other.races)
                        /\ (name(j) = name(k)
                              \/ BlockKey(consumed, j) = BlockKey(consumed, k))
                           => SameTests(races, other.races)

\* two blocks of one Location and different texts were parsed, so that
\* exchanging them changes the order of the examples in their record
C6_Witness ==
    /\ pc = "parsed"
    /\ \E j, k \in 1..NumClosed(consumed) :
          /\ j < k
          /\ BlockKey(consumed, j) = BlockKey(consumed, k)
          /\ parse(SwapBlocks(consumed, j, k)).races # races

\* a stack-frame line of fewer than four whitespace-separated tokens
Malformed(line) == startswith(line, FRAME_MARK) /\ Len(split(line, 3)) < 4

\* C7 as stated: once a closed block holds a malformed stack-frame line, the
\* run has failed and nothing is written.
C7_AnyMalformedFrameIsFatal ==
    \A k \in 1..NumClosed(consumed) :
        (\E i \in 1..Len(BlockLines(consumed, k)) :
            Malformed(BlockLines(consumed, k)[i]))
        => (pc = "failed" /\ stdout = <<>>)

\* the malformed stack-frame lines of a block that no stack-frame line with
\* a non-primitive function name precedes
ScannedMalformed(b) ==
    {i \in 1..Len(b) : Malformed(b[i]) /\ \A j \in Qualifying(b) : j >= i}

\* C7 amended: once a closed block holds a malformed stack-frame line that no
\* frame with a non-primitive function precedes, the run has failed with
\* ValueError, nothing is written, and the block is not aggregated.
C7_ScannedMalformedFrameIsFatal ==
    \A k \in 1..NumClosed(consumed) :
        ScannedMalformed(BlockLines(consumed, k)) # {}
        => /\ pc = "failed"
           /\ error = "ValueError"
           /\ stdout = <<>>
           /\ TotalExamples(races) < k

\* the run failed on a block whose malformed frame follows a primitive frame
C7_Witness ==
    /\ pc = "failed"
    /\ NumClosed(consumed) >= 1
    /\ LET b == BlockLines(consumed, NumClosed(consumed))
       IN  \E i \in ScannedMalformed(b) :
              /\ i > 1
              /\ startswith(b[1], FRAME_MARK)
              /\ ~Malformed(b[1])

\* the deciding frame of block b is reached by the scan, its location token
\* has exactly three parts, and int() does not accept the middle one
BadLinenoDecides(b) ==
    /\ Qualifying(b) # {}
    /\ ScannedMalformed(b) = {}
    /\ LET parts == split_sep(split(b[SetMin(Qualifying(b))], 3)[3], ":")
       IN  Len(parts) = 3 /\ int(parts[2]).exc # NoExc

\* C8: once a closed block's deciding frame has a three-part location token
\* whose line number is not a number, the run has failed with ValueError,
\* nothing is written, and the block has given no Location.
C8_BadLineNumberIsFatal ==
    \A k \in 1..NumClosed(consumed) :
        BadLinenoDecides(BlockLines(consumed, k))
        => /\ pc = "failed"
           /\ error = "ValueError"
           /\ stdout = <<>>
           /\ TotalExamples(races) < k

\* the run failed on a second block, whose deciding frame has the line
\* number "zz"
C8_Witness ==
    /\ pc = "failed"
    /\ NumClosed(consumed) = 2
    /\ BadLinenoDecides(BlockLines(consumed, 2))
    /\ TotalExamples(races) = 1

\* C9: when key derivation raises for no closed block of the input, the run
\* does not fail after the stream was opened.
C9_AbsentKeyIsNoError ==
    (\A k \in 1..NumClosed(consumed) : BlockKey(consumed, k).exc = NoExc)
    => (pc = "failed" => error = "OSError")

\* C10: when M >= 1 closed blocks derive no Location, the mapping holds
\* exactly one record keyed None, and it has M examples.
C10_AbsentBlocksShareOneRecord ==
    LET M == Cardinality(BlocksOf(consumed, None))
    IN  M >= 1 => /\ Cardinality(RecordsOf(races, None)) = 1
                  /\ Len(RecordOf(races, None).examples) = M

\* an empty block and a block whose only frame is primitive share the record
C10_Witness ==
    /\ \E j, k \in BlocksOf(consumed, None) :
          /\ BlockLines(consumed, j) = <<>>
          /\ \E i \in 1..Len(BlockLines(consumed, k)) :
                startswith(BlockLines(consumed, k)[i], FRAME_MARK)
    /\ Len(RecordOf(races, None).examples) = 2

\* C11: whenever the run has failed, nothing has been written.
C11_NoPartialReport == pc = "failed" => stdout = <<>>

\* the run is over with the stream acquired: the loop ended, or it raised
Terminal == pc \in {"parsed", "done"} \/ (pc = "failed" /\ error # "OSError")

\* C12: in every terminal state of a run that acquired the stream the stream
\* is closed, and every step that writes output starts with it closed.
C12_StreamReleased ==
    /\ [](Terminal => infile = "closed")
    /\ [][stdout' # stdout => infile = "closed"]_vars

\* the run failed while parsing the second block, after one was aggregated,
\* and the stream is closed
C12_Witness ==
    /\ pc = "failed"
    /\ error = "ValueError"
    /\ races # <<>>
    /\ infile = "closed"

\* old is an initial segment of new
IsPrefix(old, new) == Len(old) <= Len(new) /\ SubSeq(new, 1, Len(old)) = old

SepCount == Cardinality(SepPositions(consumed))

\* C14: unless key derivation has failed, after k separator lines the parser
\* is inside a block exactly when k is odd, and the records list k \div 2
\* examples in total.
C14_SeparatorParity ==
    ~(pc = "failed" /\ error = "ValueError") =>
        /\ in_race <=> SepCount % 2 = 1
        /\ TotalExamples(races) = SepCount \div 2

\* three separators read: one block aggregated, a second one open with a line
C14_Witness ==
    /\ pc = "reading"
    /\ SepCount = 3
    /\ in_race
    /\ lines # <<>>
    /\ TotalExamples(races) = 1

\* the status lines of the input alphabets
StatusLines == {TextOf(STATUS_A), TextOf(STATUS_B)}

\* C17: a step that reads a line outside a block changes nothing when the
\* line is neither a status line nor the separator, only cur_test when it is
\* a status line, and only in_race when it is the separator; a step that
\* reads a non-separator line inside a block, a status line included, only
\* appends the line to lines.
C17_LineEffects ==
    [][(pc = "reading" /\ consumed' # consumed) =>
          LET line == TextOf(consumed'[Len(consumed')])
          IN  IF in_race
              THEN line # SEPARATOR =>
                       /\ lines' = Append(lines, line)
                       /\ UNCHANGED <<in_race, cur_test, loc, races>>
              ELSE /\ (line \notin StatusLines /\ line # SEPARATOR) =>
                       UNCHANGED <<lines, in_race, cur_test, loc, races>>
                   /\ line \in StatusLines =>
                       /\ cur_test' # None
                       /\ UNCHANGED <<lines, in_race, loc, races>>
                   /\ line = SEPARATOR =>
                       /\ in_race'
                       /\ UNCHANGED <<lines, cur_test, loc, races>>]_vars

\* a status line outside a block set the test, the separator opened a block,
\* and a second status line inside the block was only appended
C17_Witness ==
    /\ pc = "reading"
    /\ in_race
    /\ cur_test = Some(<<"t", "e", "s", "t", "_", "a">>)
    /\ lines = <<TextOf(STATUS_B)>>
    /\ races = <<>>

\* the examples the closed blocks of the input give l, in closing order
RECURSIVE ExamplesFrom(_, _, _)
ExamplesFrom(input, l, k) ==
    IF k > NumClosed(input) THEN <<>>
    ELSE (IF BlockKey(input, k) = Return(l)
          THEN <<join(<<"\n">>, BlockLines(input, k))>> ELSE <<>>)
         \o ExamplesFrom(input, l, k + 1)

\* the position of the last separator line read, 0 when there is none
LastSep == SetMax(SepPositions(consumed) \cup {0})

\* C18: outside a block lines is empty; no line of lines is the separator;
\* inside a block lines holds the lines read since the opening separator;
\* and the examples of each record are the newline-joins of the lines
\* strictly between the separators of its blocks.
C18_ExampleIsBlockText ==
    /\ ~in_race => lines = <<>>
    /\ \A i \in 1..Len(lines) : lines[i] # SEPARATOR
    /\ (in_race /\ error = "") =>
           lines = Texts(SubSeq(consumed, LastSep + 1, Len(consumed)))
    /\ \A i \in 1..Len(races) :
           races[i].examples = ExamplesFrom(consumed, races[i].loc, 1)

\* a block of two lines was just closed: its example is the two lines joined
\* by a newline, and lines is empty again
C18_Witness ==
    /\ JustClosed
    /\ lines = <<>>
    /\ \E i \in 1..Len(races) :
           races[i].examples =
               <<TextOf(FRAME_F) \o <<"\n">> \o TextOf(TEXT_LINE)>>

\* the positions of the character c in s
Positions(s, c) == {i \in 1..Len(s) : s[i] = c}

\* the text of s after its last c, all of s when it has none
AfterLast(s, c) == SubSeq(s, SetMax(Positions(s, c) \cup {0}) + 1, Len(s))

\* the function name and the location token written on a stack-frame line
FuncOf(line) == split(line, 3)[2]

TokenOf(line) == split(line, 3)[3]

\* the number of parts the colons cut a token into
ColonParts(tok) == Cardinality(Positions(tok, ":")) + 1

\* the text of closed block k, and the frame that decides its key
BlockText(input, k) == join(<<"\n">>, BlockLines(input, k))

KeyFrame(input, k) ==
    LET b == BlockLines(input, k) IN b[SetMin(Qualifying(b))]

\* the closed blocks that hold a qualifying frame
Keyed(input) ==
    {k \in 1..NumClosed(input) : Qualifying(BlockLines(input, k)) # {}}

\* the records that list the text of closed block k
RecordsWith(d, input, k) ==
    {i \in 1..Len(d) : BlockText(input, k) \in Range(d[i].examples)}

\* C15: a closed block whose deciding frame has a location token of fewer or
\* more than three colon-separated parts does not make the run fail: the block
\* is aggregated under Location(function, the token after its last slash, 0),
\* which is also the value of loc right after the block closes.
C15_FallbackLocation ==
    \A k \in Keyed(consumed) :
        LET f    == KeyFrame(consumed, k)
            want == Some(Location(FuncOf(f), AfterLast(TokenOf(f), "/"), 0))
        IN  ColonParts(TokenOf(f)) # 3 =>
                /\ error # "ValueError"
                /\ \E i \in RecordsWith(races, consumed, k) : races[i].loc = want
                /\ (JustClosed /\ k = NumClosed(consumed)) => loc = want

\* a block whose token has four parts just closed, after a block whose token
\* has two parts: both were aggregated, under two Locations of line 0
C15_Witness ==
    /\ JustClosed
    /\ loc = Some(Location(<<"f">>,
                           <<"x", ".", "c", ":", "1", "0", ":", "5", ":", "2">>, 0))
    /\ Some(Location(<<"f">>, <<"x", ".", "c", ":", "1", "0">>, 0)) \in Keys(races)
    /\ Len(races) = 2

\* the file name and the line number written on a frame line whose location
\* token is path:line:column
FileOf(line) ==
    LET tok == TokenOf(line)
    IN  AfterLast(SubSeq(tok, 1, SetMin(Positions(tok, ":")) - 1), "/")

LineOf(line) ==
    LET tok    == TokenOf(line)
        colons == Positions(tok, ":")
    IN  DecimalValue(SubSeq(tok, SetMin(colons) + 1, SetMax(colons) - 1))

\* two frame lines name the same function, file name and line number
SameFields(f, g) ==
    /\ FuncOf(f) = FuncOf(g)
    /\ FileOf(f) = FileOf(g)
    /\ LineOf(f) = LineOf(g)

C19_IdsUnique ==
    \A i, j \in 1..Len(races) :
        (races[i].loc # None /\ races[j].loc # None /\ i # j)
        => to_id(races[i].loc[1]) # to_id(races[j].loc[1])

=============================================================================
